---- MODULE Spec2Model ----
(***************************************************************************)
(* Model of the Hashlife core.                                             *)
(*  - The hash-consing table dense_set<Key> (include/dense_set.hpp, the    *)
(*    revision with inner_iterator and _size), instantiated as in the unit *)
(*    tests with Key = int and the default hasher std::hash<int>.          *)
(*  - The bump allocator memory_arena<T>.                                  *)
(*  - The 8x8 cell block life::cells with its bit kernel (bitwise.hpp).    *)
(***************************************************************************)
EXTENDS Integers, FiniteSets, Sequences, TLC

(***************************************************************************)
(* Bounds of the model.                                                    *)
(***************************************************************************)
MaxCapacity == 3      \* capacities 1..MaxCapacity are constructed
NegKeys == 1          \* the keys -NegKeys..-1 are handed to the set
MaxKey == 3           \* and the keys 0..MaxKey
MaxClears == 1        \* clear() is called at most this many times
MaxArena == 10       \* the arena holds 1..MaxArena slots, requests are 0..MaxArena + 1
MaxBody == 2         \* free characters at the end of a format
MaxCalls == 4        \* step()/next() calls made on one cells object
WideCapacity == 11    \* capacity of the table that is wider than the probe window
MaxWideKey == 12      \* keys 0..MaxWideKey are handed to the wide table

(***************************************************************************)
(* Program constants.                                                      *)
(***************************************************************************)
HashBits == 64        \* 8*sizeof(hash), hash_type = std::size_t
TagBits == 7          \* width of sentinel::_reduced_hash
TagMask == 239        \* 0xef
ProbeLimit == 10      \* spots_visited != 10 in probe()

MinKey == 0 - NegKeys
Keys == MinKey..MaxKey
WideKeys == 0..MaxWideKey
NoKey == MinKey - 1   \* placeholder in result records of calls that take no key

VARIABLES
    capacity,    \* _elements.capacity(): the count given to the constructor
    sentinels,   \* _sentinels: per slot [filled, reduced_hash]
    elements,    \* _elements: per slot the stored key (stale or indeterminate when not filled)
    size,        \* _size
    last,        \* the last call and what it returned: [op, key, it, inserted]
    emplaced,    \* history: keys for which emplace returned inserted = true since construction / the last clear
    handles,     \* history: the pairs (key, iterator index) returned by those emplace calls
    clears,      \* history: number of clear() calls so far
    arena,       \* the memory_arena under test, NoArena while the set or the cells are
    cells,       \* the cells object under test (its bitmap), NoCells while the set or the arena is
    value,       \* the unsigned integer under test of bitwise.hpp: [width, bits], else NoValue
    pointer,     \* the life::pointer under test: its 32-bit offset, else NoPointer
    node,        \* the life::macrocell under test: [future, children], else NoNode
    copied       \* the second dense_set, made as a copy of the first: its fields, else NoCopy

vars == <<capacity, sentinels, elements, size, last, emplaced, handles, clears, arena, cells,
          value, pointer, node, copied>>

\* the values of arena and cells while another component is under test
NoArena == [size |-> 0, head |-> 0, taken |-> {}]
NoCells == {}
NoValue == [width |-> 0, bits |-> {}]
NoPointer == <<>>
NoNode == [future |-> <<>>, children |-> <<>>]
NoCopy == [capacity |-> 0, sentinels |-> <<>>, elements |-> <<>>, size |-> 0, shared |-> {}]

Slots == 0..(capacity - 1)

(***************************************************************************)
(* Arithmetic on 64-bit hashes.  A hash h is kept as the signed integer    *)
(* congruent to it modulo 2^HashBits (std::hash<int> casts the int to      *)
(* std::size_t, so a negative key k has hash 2^64 + k).                    *)
(***************************************************************************)
RECURSIVE Pow2Mod(_, _)
Pow2Mod(n, c) == IF n = 0 THEN 1 % c ELSE (2 * Pow2Mod(n - 1, c)) % c

RECURSIVE BitAnd(_, _, _)
BitAnd(a, b, n) ==
    IF n = 0 THEN 0
    ELSE 2 * BitAnd(a \div 2, b \div 2, n - 1) + (IF a % 2 = 1 /\ b % 2 = 1 THEN 1 ELSE 0)

\* hasher()(object) for Key = int
Hash(key) == key

\* 2^64 modulo each capacity that is constructed
MaxAnyCapacity == IF MaxCapacity > WideCapacity THEN MaxCapacity ELSE WideCapacity

HashSpaceMod == [c \in 1..MaxAnyCapacity |-> Pow2Mod(HashBits, c)]

\* hash % capacity() on the unsigned 64-bit value
HashMod(hash, c) ==
    IF hash >= 0 THEN hash % c
    ELSE (HashSpaceMod[c] + c - ((0 - hash) % c)) % c

\* hash >> (8*sizeof(hash) - 7): the 7 high bits; every modelled |hash| < 2^31
HighBits(hash) == IF hash >= 0 THEN 0 ELSE 2^TagBits - 1

\* (std::uint8_t) x & 0xef for every 7-bit x
MaskedTag == [x \in 0..(2^TagBits - 1) |-> BitAnd(x % 256, TagMask, 8)]

\* (std::uint8_t) (hash >> (8*sizeof(hash) - 7)) & 0xef
ReducedHash(hash) == MaskedTag[HighBits(hash)]

(***************************************************************************)
(* sentinel and inner_iterator helpers.                                    *)
(***************************************************************************)
EmptySentinel == [filled |-> FALSE, reduced_hash |-> 0]

SentinelEmpty(i) == ~sentinels[i].filled

SentinelMatches(i, reduced_hash) ==
    sentinels[i].filled /\ sentinels[i].reduced_hash = reduced_hash

\* inner_iterator::operator++
InnerNext(i) == (i + 1) % capacity

\* end(): iterator{*this, capacity()}
End == capacity

(***************************************************************************)
(* Lookup.                                                                 *)
(***************************************************************************)
\* Faulty lookups: one that looks at the home slot only, one that stops at
\* the last slot of the array instead of wrapping round to slot 0.
FindLoop_HomeOnly(key, reduced_hash, start, current) ==
    IF SentinelMatches(current, reduced_hash) /\ elements[current] = key THEN current ELSE End

RECURSIVE FindLoop_NoWrap(_, _, _, _)
FindLoop_NoWrap(key, reduced_hash, start, current) ==
    IF SentinelEmpty(current) THEN End
    ELSE IF SentinelMatches(current, reduced_hash) /\ elements[current] = key THEN current
    ELSE IF current + 1 # capacity
         THEN FindLoop_NoWrap(key, reduced_hash, start, current + 1)
         ELSE End

\* The do-while loop of find(key, hash, reduced_hash), entered at `current`.
RECURSIVE FindLoop(_, _, _, _)
FindLoop(key, reduced_hash, start, current) ==
    IF SentinelEmpty(current) THEN End
    ELSE IF SentinelMatches(current, reduced_hash) /\ elements[current] = key THEN current
    ELSE IF InnerNext(current) # start
         THEN FindLoop(key, reduced_hash, start, InnerNext(current))
         ELSE End

\* find(key, hash, reduced_hash): the index of the iterator it returns
FindHashed(key, hash, reduced_hash) ==
    FindLoop(key, reduced_hash, HashMod(hash, capacity), HashMod(hash, capacity))

\* find(key)
Find(key) == FindHashed(key, Hash(key), ReducedHash(Hash(key)))

\* Faulty probe: stops at the last slot of the array instead of wrapping.
RECURSIVE ProbeLoop_NoWrap(_, _, _)
ProbeLoop_NoWrap(start, current, spots_visited) ==
    IF SentinelEmpty(current) THEN current
    ELSE IF current + 1 # capacity /\ spots_visited + 1 # ProbeLimit
         THEN ProbeLoop_NoWrap(start, current + 1, spots_visited + 1)
         ELSE End

\* The do-while loop of probe(start), entered at `current`.
RECURSIVE ProbeLoop(_, _, _)
ProbeLoop(start, current, spots_visited) ==
    IF SentinelEmpty(current) THEN current
    ELSE IF InnerNext(current) # start /\ spots_visited + 1 # ProbeLimit
         THEN ProbeLoop(start, InnerNext(current), spots_visited + 1)
         ELSE End

\* a probe that looks for the first free slot after start
Probe_SkipsHome(start) == ProbeLoop(start, InnerNext(start), 0)

\* probe(start): the first free slot at or after start, End when none is found
Probe(start) == ProbeLoop(start, start, 0)

(***************************************************************************)
(* Modifiers.  Each *Effect operator gives the whole outcome of one call   *)
(* on the current table: the new fields and the returned pair.             *)
(***************************************************************************)
Unchanged(it, inserted) ==
    [sentinels |-> sentinels, elements |-> elements, size |-> size,
     it |-> it, inserted |-> inserted]

\* Faulty emplace: colonizes the home slot instead of the free slot probe found.
EmplaceEffect_WriteHome(key) ==
    LET hash == Hash(key)
        reduced_hash == ReducedHash(hash)
        found == FindHashed(key, hash, reduced_hash)
        location == HashMod(hash, capacity)
        free_location == Probe(location)
    IN  IF found # End THEN Unchanged(found, FALSE)
        ELSE IF free_location = End THEN Unchanged(location, FALSE)
        ELSE [sentinels |-> [sentinels EXCEPT ![location] =
                                [filled |-> TRUE, reduced_hash |-> reduced_hash % 2^TagBits]],
              elements  |-> [elements EXCEPT ![location] = key],
              size      |-> size + 1,
              it        |-> location,
              inserted  |-> TRUE]

\* Faulty emplace: counts the element before it knows that a free slot exists.
EmplaceEffect_CountsFailure(key) ==
    LET hash == Hash(key)
        reduced_hash == ReducedHash(hash)
        found == FindHashed(key, hash, reduced_hash)
        location == HashMod(hash, capacity)
        free_location == Probe(location)
    IN  IF found # End THEN Unchanged(found, FALSE)
        ELSE IF free_location = End
             THEN [Unchanged(location, FALSE) EXCEPT !.size = size + 1]
        ELSE [sentinels |-> [sentinels EXCEPT ![free_location] =
                                [filled |-> TRUE, reduced_hash |-> reduced_hash % 2^TagBits]],
              elements  |-> [elements EXCEPT ![free_location] = key],
              size      |-> size + 1,
              it        |-> location,
              inserted  |-> TRUE]

\* Faulty emplace: colonizes with the 7 high bits of the hash, not masked.
EmplaceEffect_RawTag(key) ==
    LET hash == Hash(key)
        reduced_hash == ReducedHash(hash)
        found == FindHashed(key, hash, reduced_hash)
        location == HashMod(hash, capacity)
        free_location == Probe(location)
    IN  IF found # End THEN Unchanged(found, FALSE)
        ELSE IF free_location = End THEN Unchanged(location, FALSE)
        ELSE [sentinels |-> [sentinels EXCEPT ![free_location] =
                                [filled |-> TRUE, reduced_hash |-> HighBits(hash)]],
              elements  |-> [elements EXCEPT ![free_location] = key],
              size      |-> size + 1,
              it        |-> location,
              inserted  |-> TRUE]

\* emplace(args...): find, then probe from the home slot, then colonize
EmplaceEffect(key) ==
    LET hash == Hash(key)
        reduced_hash == ReducedHash(hash)
        found == FindHashed(key, hash, reduced_hash)
        location == HashMod(hash, capacity)
        free_location == Probe(location)
    IN  IF found # End THEN Unchanged(found, FALSE)
        ELSE IF free_location = End THEN Unchanged(location, FALSE)
        ELSE [sentinels |-> [sentinels EXCEPT ![free_location] =
                                [filled |-> TRUE, reduced_hash |-> reduced_hash % 2^TagBits]],
              elements  |-> [elements EXCEPT ![free_location] = key],
              size      |-> size + 1,
              it        |-> location,
              inserted  |-> TRUE]

\* Faulty clear: the fill stops one slot short of end().
ClearEffect_OneShort ==
    [i \in Slots |-> IF i = capacity - 1 THEN sentinels[i] ELSE EmptySentinel]

\* clear(): std::fill(_sentinels.begin(), _sentinels.end(), sentinel{})
ClearEffect == [i \in Slots |-> EmptySentinel]

\* The loop `while (inner.empty()) ++inner` of iterator operator++, entered
\* at `index` after `skipped` slots were skipped; Diverges when every slot is
\* empty and the loop never ends.
Diverges == -1

RECURSIVE SkipEmpty(_, _)
SkipEmpty(index, skipped) ==
    IF ~SentinelEmpty(index) THEN index
    ELSE IF skipped >= capacity THEN Diverges
    ELSE SkipEmpty(InnerNext(index), skipped + 1)

\* iterator_implementation::operator++ on an iterator at `index`
Advance(index) == SkipEmpty(InnerNext(index), 0)

(***************************************************************************)
(* State machine.                                                          *)
(***************************************************************************)
\* new T[count] leaves int elements indeterminate: the fresh buffer holds
\* whatever the allocator left there, modelled as one of these fill values
IndeterminateInts == {0, MaxKey}

Result(op, key, it, inserted) == [op |-> op, key |-> key, it |-> it, inserted |-> inserted]

\* a call that never returned, or a constructor that threw: no call on the
\* set follows
Hung == last.op \in {"hang", "domain_error"}

\* every key a claim asks about
AllKeys == Keys \cup WideKeys

\* the constructor's check of its argument
Rejects_Negative(count) == count < 0

Rejects(count) == count <= 0

\* new sentinel[count] without the fill by sentinel{}: whatever the
\* allocator left there, here slots that read as filled with tag 0
Construct_RawSentinels(count) ==
    /\ capacity = count
    /\ sentinels = [i \in 0..(count - 1) |-> [EmptySentinel EXCEPT !.filled = TRUE]]
    /\ \E fill \in IndeterminateInts : elements = [i \in 0..(count - 1) |-> fill]
    /\ size = 0
    /\ last = Result("construct", NoKey, count, FALSE)
    /\ emplaced = {}
    /\ handles = {}
    /\ clears = 0
    /\ arena = NoArena
    /\ cells = NoCells
    /\ value = NoValue
    /\ pointer = NoPointer
    /\ node = NoNode
    /\ copied = NoCopy

\* the members are built first (_size = 0 by its default initializer), then
\* the body throws std::domain_error on a count of zero: the object never
\* comes to exist
Construct(count) ==
    /\ capacity = count
    /\ sentinels = [i \in 0..(count - 1) |-> EmptySentinel]
    /\ \E fill \in IndeterminateInts : elements = [i \in 0..(count - 1) |-> fill]
    /\ size = 0
    /\ last = IF Rejects(count)
              THEN Result("domain_error", NoKey, count, FALSE)
              ELSE Result("construct", NoKey, count, FALSE)
    /\ emplaced = {}
    /\ handles = {}
    /\ clears = 0
    /\ arena = NoArena
    /\ cells = NoCells
    /\ value = NoValue
    /\ pointer = NoPointer
    /\ node = NoNode
    /\ copied = NoCopy

Init == \E count \in 1..MaxCapacity : Construct(count)

EmplaceCall(key) ==
    /\ ~Hung
    /\ LET effect == EmplaceEffect(key)
       IN  /\ sentinels' = effect.sentinels
           /\ elements' = effect.elements
           /\ size' = effect.size
           /\ last' = Result("emplace", key, effect.it, effect.inserted)
           /\ emplaced' = IF effect.inserted THEN emplaced \cup {key} ELSE emplaced
           /\ handles' = IF effect.inserted
                         THEN handles \cup {[key |-> key, it |-> effect.it]}
                         ELSE handles
    /\ UNCHANGED <<capacity, clears, arena, cells, value, pointer, node, copied>>

FindCall(key) ==
    /\ ~Hung
    /\ last' = Result("find", key, Find(key), FALSE)
    /\ UNCHANGED <<capacity, sentinels, elements, size, emplaced, handles, clears, arena, cells, value, pointer, node, copied>>

ClearCall ==
    /\ ~Hung
    /\ clears < MaxClears
    /\ sentinels' = ClearEffect
    /\ last' = Result("clear", NoKey, End, FALSE)
    /\ emplaced' = {}
    /\ handles' = {}
    /\ clears' = clears + 1
    /\ UNCHANGED <<capacity, elements, size, arena, cells, value, pointer, node, copied>>

BeginCall ==
    /\ ~Hung
    /\ last' = Result("begin", NoKey, 0, FALSE)
    /\ UNCHANGED <<capacity, sentinels, elements, size, emplaced, handles, clears, arena, cells, value, pointer, node, copied>>

\* ++it on the iterator the last call returned (precondition: not end())
AdvanceCall ==
    /\ ~Hung
    /\ last.it # End
    /\ last' = IF Advance(last.it) = Diverges
               THEN Result("hang", NoKey, last.it, FALSE)
               ELSE Result("advance", NoKey, Advance(last.it), FALSE)
    /\ UNCHANGED <<capacity, sentinels, elements, size, emplaced, handles, clears, arena, cells, value, pointer, node, copied>>

\* static_vector(const static_vector& other): new T[other.size()], then
\* std::copy of [other.begin(), other.end()) into it
StaticVectorCopy(other) == [i \in DOMAIN other |-> other[i]]

\* a copy that leaves the sentinels of the new table as sentinel{} made them
CopyEffect_FreshSentinels ==
    [capacity |-> capacity,
     sentinels |-> [i \in Slots |-> EmptySentinel],
     elements |-> StaticVectorCopy(elements),
     size |-> size]

\* dense_set(const dense_set&) = default: memberwise copy of _elements,
\* _sentinels and _size
CopyEffect ==
    [capacity |-> capacity,
     sentinels |-> StaticVectorCopy(sentinels),
     elements |-> StaticVectorCopy(elements),
     size |-> size]

\* const auto test = set: from here on the calls go to the copy; the record
\* of the call keeps what the original answered (the keys it found, its
\* size()) at the moment of the copy
CopyCall ==
    /\ ~Hung
    /\ LET copy == CopyEffect
       IN  /\ capacity' = copy.capacity
           /\ sentinels' = copy.sentinels
           /\ elements' = copy.elements
           /\ size' = copy.size
    /\ last' = [op |-> "copy", key |-> NoKey, it |-> End, inserted |-> FALSE,
                found |-> {key \in AllKeys : Find(key) # End}, size |-> size]
    /\ UNCHANGED <<emplaced, handles, clears, arena, cells, value, pointer, node, copied>>

Next ==
    \/ \E key \in Keys : EmplaceCall(key)
    \/ \E key \in Keys : FindCall(key)
    \/ ClearCall
    \/ BeginCall
    \/ AdvanceCall
    \/ CopyCall

Spec == Init /\ [][Next]_vars

\* The table that is wider than the probe window.  Its client loads the keys
\* 0, 1, 2, ... in that order (each lands in its home slot unless a colliding
\* key took it) and emplaces the colliding keys >= capacity at any time.
InitWide == Construct(WideCapacity)

WideLoadOrder(key) == key >= capacity \/ key = 0 \/ (key - 1) \in emplaced

NextWide ==
    \/ \E key \in WideKeys : WideLoadOrder(key) /\ EmplaceCall(key)
    \/ \E key \in WideKeys : FindCall(key)
    \/ AdvanceCall

SpecWide == InitWide /\ [][NextWide]_vars

\* The client that may ask for any capacity, zero included, and then fills,
\* looks up and copies the table.
InitAny == \E count \in 0..MaxCapacity : Construct(count)

NextAny ==
    \/ \E key \in Keys : EmplaceCall(key)
    \/ \E key \in Keys : FindCall(key)
    \/ BeginCall
    \/ CopyCall

SpecAny == InitAny /\ [][NextAny]_vars

\* The client that only fills and clears the table, of a capacity within the
\* probe window or of the capacity wider than it; the wide table is loaded
\* in the order of SpecWide and, as there, not cleared.
InitFill == \E count \in (1..MaxCapacity) \cup {WideCapacity} : Construct(count)

FillKeys ==
    IF capacity >= WideCapacity THEN {key \in WideKeys : WideLoadOrder(key)} ELSE Keys

NextFill ==
    \/ \E key \in FillKeys : EmplaceCall(key)
    \/ capacity < WideCapacity /\ ClearCall

SpecFill == InitFill /\ [][NextFill]_vars

\* ---------------------------------------------------------------------
\* Two sets: a dense_set and its copy.  The state variables hold the set
\* the calls go to, copied holds the other one; copied.shared names the
\* buffers of the other set that are the same storage as this set's, so
\* that a write through one set shows in the other exactly when the two
\* sets hold the same array.

\* a copy that takes over the pointers to the buffers instead of
\* allocating its own
CopyOfSet_SharesStorage ==
    [capacity |-> capacity, sentinels |-> sentinels, elements |-> elements,
     size |-> size, shared |-> {"elements", "sentinels"}]

\* dense_set(const dense_set&) = default over static_vector(const
\* static_vector&): _storage{new T[other.size()]} and std::copy, so the
\* copy has arrays of its own with the same contents, and its own _size
CopyOfSet ==
    [capacity |-> CopyEffect.capacity, sentinels |-> CopyEffect.sentinels,
     elements |-> CopyEffect.elements, size |-> CopyEffect.size, shared |-> {}]

\* static_vector::operator=: the target keeps its array unless the sizes
\* differ (then it allocates a new one), and std::copy overwrites its
\* contents
AssignedSet ==
    [capacity |-> capacity, sentinels |-> StaticVectorCopy(sentinels),
     elements |-> StaticVectorCopy(elements), size |-> size,
     shared |-> IF copied.capacity # capacity THEN {} ELSE copied.shared]

\* the other set after this set's buffers became new_sentinels and
\* new_elements: only storage the two sets share changes with it
SeenThrough(new_sentinels, new_elements) ==
    [copied EXCEPT
        !.sentinels = IF "sentinels" \in copied.shared THEN new_sentinels ELSE @,
        !.elements = IF "elements" \in copied.shared THEN new_elements ELSE @]

MaxCopyCapacity == 2   \* largest capacity of the two sets
MaxCopyKey == 2        \* the keys stored in the two sets are 0..MaxCopyKey

CopyKeys == 0..MaxCopyKey

InitCopy == \E count \in 1..MaxCopyCapacity : Construct(count)

\* const auto test = set
CopyConstructCall ==
    /\ copied = NoCopy
    /\ copied' = CopyOfSet
    /\ last' = Result("copy", NoKey, End, FALSE)
    /\ UNCHANGED <<capacity, sentinels, elements, size, emplaced, handles, clears, arena, cells, value, pointer, node>>

\* test = set, for a copy that exists already
CopyAssignCall ==
    /\ copied # NoCopy
    /\ copied' = AssignedSet
    /\ last' = Result("assign", NoKey, End, FALSE)
    /\ UNCHANGED <<capacity, sentinels, elements, size, emplaced, handles, clears, arena, cells, value, pointer, node>>

\* from here on the calls go to the other one of the two sets
SwitchCall ==
    /\ copied # NoCopy
    /\ capacity' = copied.capacity
    /\ sentinels' = copied.sentinels
    /\ elements' = copied.elements
    /\ size' = copied.size
    /\ copied' = [capacity |-> capacity, sentinels |-> sentinels,
                  elements |-> elements, size |-> size, shared |-> copied.shared]
    /\ last' = Result("switch", NoKey, copied.capacity, FALSE)
    /\ UNCHANGED <<emplaced, handles, clears, arena, cells, value, pointer, node>>

\* emplace on one of the two sets
EmplaceOneCall(key) ==
    /\ LET effect == EmplaceEffect(key)
       IN  /\ sentinels' = effect.sentinels
           /\ elements' = effect.elements
           /\ size' = effect.size
           /\ copied' = IF copied = NoCopy THEN copied
                        ELSE SeenThrough(effect.sentinels, effect.elements)
           /\ last' = Result("emplace", key, effect.it, effect.inserted)
    /\ UNCHANGED <<capacity, emplaced, handles, clears, arena, cells, value, pointer, node>>

\* clear on one of the two sets
ClearOneCall ==
    /\ clears < MaxClears
    /\ sentinels' = ClearEffect
    /\ copied' = IF copied = NoCopy THEN copied
                 ELSE SeenThrough(ClearEffect, elements)
    /\ last' = Result("clear", NoKey, End, FALSE)
    /\ clears' = clears + 1
    /\ UNCHANGED <<capacity, elements, size, emplaced, handles, arena, cells, value, pointer, node>>

NextCopy ==
    \/ \E key \in CopyKeys : EmplaceOneCall(key)
    \/ ClearOneCall
    \/ CopyConstructCall
    \/ CopyAssignCall
    \/ SwitchCall

SpecCopy == InitCopy /\ [][NextCopy]_vars

(***************************************************************************)
(* The earlier revision of dense_set (dense_set.hpp, the revision whose    *)
(* iterator holds an index and that has no _size).  Its sentinels and its  *)
(* constructor for a count above 0 are those of the later revision.        *)
(***************************************************************************)
\* the for loop of find(key), entered at `current` before the wrap test
RECURSIVE FindEarlierLoop(_, _, _, _)
FindEarlierLoop(key, reduced_hash, first, current) ==
    LET wrapped == IF current = capacity THEN 0 ELSE current
    IN  IF wrapped = first THEN End
        ELSE IF SentinelMatches(wrapped, reduced_hash) /\ elements[wrapped] = key
             THEN wrapped
        ELSE FindEarlierLoop(key, reduced_hash, first, wrapped + 1)

\* find(key): the home slot, then every other slot once
FindEarlier(key) ==
    LET hash == Hash(key)
        reduced_hash == ReducedHash(hash)
        first == HashMod(hash, capacity)
    IN  IF SentinelMatches(first, reduced_hash) /\ elements[first] = key THEN first
        ELSE FindEarlierLoop(key, reduced_hash, first, first + 1)

\* the for loop of probe(location), entered at `current` before the wrap test
RECURSIVE ProbeEarlierLoop(_, _, _)
ProbeEarlierLoop(first, current, spots_visited) ==
    LET wrapped == IF current = capacity THEN 0 ELSE current
    IN  IF SentinelEmpty(wrapped) THEN wrapped
        ELSE IF wrapped = first \/ spots_visited = ProbeLimit THEN End
        ELSE ProbeEarlierLoop(first, wrapped + 1, spots_visited + 1)

\* probe(location)
ProbeEarlier(first) ==
    IF SentinelEmpty(first) THEN first ELSE ProbeEarlierLoop(first, first + 1, 0)

\* emplace(args...): find, then probe from the home slot, then colonize the
\* slot probe found and return it
EmplaceEarlierEffect(key) ==
    LET hash == Hash(key)
        found == FindEarlier(key)
        location == ProbeEarlier(HashMod(hash, capacity))
        reduced_hash == ReducedHash(hash)
    IN  IF found # End THEN Unchanged(found, FALSE)
        ELSE IF location = End THEN Unchanged(End, FALSE)
        ELSE [sentinels |-> [sentinels EXCEPT ![location] =
                                [filled |-> TRUE, reduced_hash |-> reduced_hash % 2^TagBits]],
              elements  |-> [elements EXCEPT ![location] = key],
              size      |-> size,
              it        |-> location,
              inserted  |-> TRUE]

EmplaceEarlierCall(key) ==
    /\ LET effect == EmplaceEarlierEffect(key)
       IN  /\ sentinels' = effect.sentinels
           /\ elements' = effect.elements
           /\ last' = Result("emplace", key, effect.it, effect.inserted)
           /\ emplaced' = IF effect.inserted THEN emplaced \cup {key} ELSE emplaced
           /\ handles' = IF effect.inserted
                         THEN handles \cup {[key |-> key, it |-> effect.it]}
                         ELSE handles
    /\ UNCHANGED <<capacity, size, clears, arena, cells, value, pointer, node, copied>>

FindEarlierCall(key) ==
    /\ last' = Result("find", key, FindEarlier(key), FALSE)
    /\ UNCHANGED <<capacity, sentinels, elements, size, emplaced, handles, clears, arena, cells, value, pointer, node, copied>>

\* the tables of SpecFill, filled and looked up
InitEarlier == \E count \in (1..MaxCapacity) \cup {WideCapacity} : Construct(count)

NextEarlier ==
    \/ \E key \in FillKeys : EmplaceEarlierCall(key)
    \/ \E key \in FillKeys : FindEarlierCall(key)

SpecEarlier == InitEarlier /\ [][NextEarlier]_vars

(***************************************************************************)
(* dense_hash_set (hash_set.hpp): the table whose calls return the index   *)
(* of a slot, capacity() for none.                                         *)
(***************************************************************************)
\* the for loop of find(object), entered at `i` before its test i != index,
\* after `rounds` rounds.  The loop has no state but i and the table does
\* not change, so a loop that has made more rounds than there are values of
\* i never ends.
RECURSIVE FindIndexedLoop(_, _, _, _, _)
FindIndexedLoop(object, reduced_hash, index, i, rounds) ==
    IF i = index THEN End
    ELSE IF rounds > capacity + 1 THEN Diverges
    ELSE LET wrapped == IF i = capacity THEN 0 ELSE i
         IN  IF SentinelEmpty(wrapped) THEN End
             ELSE IF SentinelMatches(wrapped, reduced_hash) /\ elements[wrapped] = object
                  THEN wrapped
             ELSE FindIndexedLoop(object, reduced_hash, index, wrapped + 1, rounds + 1)

\* find(object)
FindIndexed(object) ==
    LET hash == Hash(object)
        reduced_hash == ReducedHash(hash)
        index == HashMod(hash, capacity)
    IN  IF SentinelMatches(index, reduced_hash) /\ elements[index] = object THEN index
        ELSE FindIndexedLoop(object, reduced_hash, index, index + 1, 0)

\* the for loop of free(location), entered at `i` before its test n < 10
RECURSIVE FreeLoop(_, _)
FreeLoop(i, n) ==
    IF ~(n < ProbeLimit) THEN End
    ELSE LET wrapped == IF i = capacity THEN 0 ELSE i
         IN  IF SentinelEmpty(wrapped) THEN wrapped ELSE FreeLoop(wrapped + 1, n + 1)

\* free(location)
Free(location) == FreeLoop(location, 0)

\* emplace(args...): the index of the object, capacity() when there is no
\* room for it, Diverges when its find never returns
EmplaceIndexedEffect(object) ==
    LET found == FindIndexed(object)
        hash == Hash(object)
        location == Free(HashMod(hash, capacity))
        reduced_hash == ReducedHash(hash)
    IN  IF found # End THEN Unchanged(found, FALSE)
        ELSE IF location = End THEN Unchanged(End, FALSE)
        ELSE [sentinels |-> [sentinels EXCEPT ![location] =
                                [filled |-> TRUE, reduced_hash |-> reduced_hash % 2^TagBits]],
              elements  |-> [elements EXCEPT ![location] = object],
              size      |-> size,
              it        |-> location,
              inserted  |-> TRUE]

EmplaceIndexedCall(object) ==
    /\ ~Hung
    /\ LET effect == EmplaceIndexedEffect(object)
       IN  /\ sentinels' = effect.sentinels
           /\ elements' = effect.elements
           /\ last' = IF effect.it = Diverges
                       THEN Result("hang", object, End, FALSE)
                       ELSE Result("emplace", object, effect.it, effect.inserted)
           /\ emplaced' = IF effect.inserted THEN emplaced \cup {object} ELSE emplaced
           /\ handles' = IF effect.inserted
                         THEN handles \cup {[key |-> object, it |-> effect.it]}
                         ELSE handles
    /\ UNCHANGED <<capacity, size, clears, arena, cells, value, pointer, node, copied>>

FindIndexedCall(object) ==
    /\ ~Hung
    /\ last' = IF FindIndexed(object) = Diverges
               THEN Result("hang", object, End, FALSE)
               ELSE Result("find", object, FindIndexed(object), FALSE)
    /\ UNCHANGED <<capacity, sentinels, elements, size, emplaced, handles, clears, arena, cells, value, pointer, node, copied>>

InitIndexed == \E count \in (1..MaxCapacity) \cup {WideCapacity} : Construct(count)

NextIndexed ==
    \/ \E object \in FillKeys : EmplaceIndexedCall(object)
    \/ \E object \in FillKeys : FindIndexedCall(object)

SpecIndexed == InitIndexed /\ [][NextIndexed]_vars

(***************************************************************************)
(* memory_arena<T>: a fixed buffer of arena.size slots and the high-water  *)
(* mark arena.head.  A pointer into the buffer is the index of its slot.   *)
(* arena.taken is history: the slots handed out so far.                    *)
(***************************************************************************)
Null == -1

\* the arena of the unit tests: memory_arena<int>{10}
TestArenaSize == 10

\* the set's variables while the arena or the cells are under test
NoSet ==
    /\ capacity = 0
    /\ sentinels = <<>>
    /\ elements = <<>>
    /\ size = 0
    /\ emplaced = {}
    /\ handles = {}
    /\ clears = 0

\* an arena that reports full while one slot is left
Full_OneLeft == arena.head >= arena.size - 1

Full == arena.head = arena.size

\* a failed request that still moves the mark to the end of the buffer
AllocateEffect_BumpOnFailure(n) ==
    IF arena.head + n > arena.size
    THEN [ptr |-> Null, head |-> arena.size]
    ELSE [ptr |-> arena.head, head |-> arena.head + n]

\* a request that hands out the slots at the mark without moving it
AllocateEffect_NoAdvance(n) ==
    IF arena.head + n > arena.size
    THEN [ptr |-> Null, head |-> arena.head]
    ELSE [ptr |-> arena.head, head |-> arena.head]

\* allocate(n): the n slots from the mark on and the mark moved past them,
\* or null and the mark where it was when they do not fit
AllocateEffect(n) ==
    IF arena.head + n > arena.size
    THEN [ptr |-> Null, head |-> arena.head]
    ELSE [ptr |-> arena.head, head |-> arena.head + n]

\* the slots of a range of n slots from ptr on
Range(ptr, n) == IF ptr = Null THEN {} ELSE ptr..(ptr + n - 1)

NewArena(N) ==
    /\ arena = [size |-> N, head |-> 0, taken |-> {}]
    /\ last = [op |-> "new", n |-> N, ptr |-> Null, head |-> 0, taken |-> {}]
    /\ cells = NoCells
    /\ value = NoValue
    /\ pointer = NoPointer
    /\ node = NoNode
    /\ copied = NoCopy
    /\ NoSet

InitArena == \E N \in 1..MaxArena : NewArena(N)

\* the record of the call keeps the mark and the slots handed out before it
AllocateCall(n) ==
    /\ LET effect == AllocateEffect(n)
       IN  /\ arena' = [arena EXCEPT !.head = effect.head,
                                     !.taken = @ \cup Range(effect.ptr, n)]
           /\ last' = [op |-> "allocate", n |-> n, ptr |-> effect.ptr,
                       head |-> arena.head, taken |-> arena.taken]
    /\ UNCHANGED <<capacity, sentinels, elements, size, emplaced, handles, clears, cells, value, pointer, node, copied>>

NextArena == \E n \in 0..(MaxArena + 1) : AllocateCall(n)

SpecArena == InitArena /\ [][NextArena]_vars

(***************************************************************************)
(* life::cells: 8x8 cells in one 64-bit word, cell (x, y) at bit            *)
(* x + y*columns.  A word is modelled as the set of the indexes of its set  *)
(* bits; the shifts drop the bits that leave the 64-bit word.               *)
(***************************************************************************)
columns == 8
rows == 8
WordBits == 64

AllBits == 0..(WordBits - 1)

ShiftLeft(word, n) == {i + n : i \in {j \in word : j + n < WordBits}}
ShiftRight(word, n) == {i - n : i \in {j \in word : j >= n}}
And(l, r) == l \cap r
Or(l, r) == l \cup r
Xor(l, r) == (l \ r) \cup (r \ l)
Not(word) == AllBits \ word

\* the word a hexadecimal literal denotes, from its bytes as written (most
\* significant first)
Word(bytes) ==
    {i \in AllBits : (bytes[8 - (i \div 8)] \div 2^(i % 8)) % 2 = 1}

\* 0x007e7e7e7e7e7e00ull
StepMask == Word(<<0, 126, 126, 126, 126, 126, 126, 0>>)
\* 0x00003c3c3c3c0000ull
NextMask == Word(<<0, 0, 60, 60, 60, 60, 0, 0>>)
\* 0xffffffffffffffffull
filled == Word(<<255, 255, 255, 255, 255, 255, 255, 255>>)

\* A shift by a count >= the width of the word is undefined.  What it gives
\* is the choice of the build: "masked" takes the count modulo the width (the
\* shift instructions of x86-64), "zero" shifts every bit out.
Builds == {"masked", "zero"}

\* the count a shift of a word of this width really shifts by, or the width
\* itself when every bit is shifted out
ShiftCount(index, width, build) ==
    IF index < width THEN index
    ELSE IF build = "masked" THEN index % width
    ELSE width

\* bit(value, index): (value >> index) & 1u
bit(word, index, width, build) ==
    0 \in ShiftRight(word, ShiftCount(index, width, build))

\* word << n in a type of the given width, n <= width
ShiftLeftIn(word, n, width) == {i + n : i \in {j \in word : j + n < width}}

\* set(value, index): value |= (Unsigned(1) << index)
set(word, index, width, build) ==
    Or(word, ShiftLeftIn({0}, ShiftCount(index, width, build), width))

\* a half adder whose sum is the OR of its inputs
half_add_OrSum(l, r) == <<Or(l, r), And(l, r)>>

half_add(l, r) == <<Xor(l, r), And(l, r)>>

\* a full adder whose carry misses the term of right and carry
full_add_TwoTerms(l, r, c) == <<Xor(Xor(l, r), c), Or(And(l, r), And(l, c))>>

\* a full adder whose carry forgets the carry-in
full_add_NoCarryIn(l, r, c) == <<Xor(Xor(l, r), c), And(l, r)>>

full_add(l, r, c) == <<Xor(Xor(l, r), c), Or(Or(And(l, r), And(l, c)), And(r, c))>>

\* neighbours whose sum4 forgets the carry of the two planes of weight 2
neighbours_DropsCarry(bitmap) ==
    LET left == ShiftLeft(bitmap, 1)
        right == ShiftRight(bitmap, 1)
        mid == full_add(left, bitmap, right)
        up1 == ShiftLeft(mid[1], columns)
        up2 == ShiftLeft(mid[2], columns)
        down1 == ShiftRight(mid[1], columns)
        down2 == ShiftRight(mid[2], columns)
        low == full_add(up1, mid[1], down1)
        high == full_add(up2, mid[2], down2)
        twos == half_add(low[2], high[1])
    IN  <<low[1], twos[1], high[2]>>

\* per cell the number of live cells in its 3x3 neighbourhood, itself
\* included, modulo 8, as the three bit planes <<sum1, sum2, sum4>>
neighbours(bitmap) ==
    LET left == ShiftLeft(bitmap, 1)
        right == ShiftRight(bitmap, 1)
        mid == full_add(left, bitmap, right)
        up1 == ShiftLeft(mid[1], columns)
        up2 == ShiftLeft(mid[2], columns)
        down1 == ShiftRight(mid[1], columns)
        down2 == ShiftRight(mid[2], columns)
        low == full_add(up1, mid[1], down1)      \* <<sum1, sum2a>>
        high == full_add(up2, mid[2], down2)     \* <<sum2b, sum4a>>
        twos == half_add(low[2], high[1])        \* <<sum2, sum4b>>
        sum4 == Xor(high[2], twos[2])
    IN  <<low[1], twos[1], sum4>>

\* a step that knows birth and survival on two neighbours, not on three
step_BirthOnly(bitmap) ==
    LET sums == neighbours(bitmap)
        case2 == And(And(sums[1], sums[2]), Not(sums[3]))
    IN  And(case2, StepMask)

\* a step that keeps the inner 4x4 cells only
step_InnerMask(bitmap) ==
    LET sums == neighbours(bitmap)
        case1 == And(bitmap, And(And(Not(sums[1]), Not(sums[2])), sums[3]))
        case2 == And(And(sums[1], sums[2]), Not(sums[3]))
    IN  And(Or(case1, case2), NextMask)

step(bitmap) ==
    LET sums == neighbours(bitmap)
        case1 == And(bitmap, And(And(Not(sums[1]), Not(sums[2])), sums[3]))
        case2 == And(And(sums[1], sums[2]), Not(sums[3]))
    IN  And(Or(case1, case2), StepMask)

\* a next that advances one generation only
next_OneStep(bitmap) == And(step(bitmap), NextMask)

next(bitmap) == And(step(step(bitmap)), NextMask)

\* operator()(x, y): the cell at column x of row y
Alive(bitmap, x, y) == (x + y * columns) \in bitmap

\* a printer that writes the columns as lines
Output_Transposed(bitmap) ==
    [k \in 1..(rows * (columns + 1)) |->
        LET i == (k - 1) \div (columns + 1)
            j == (k - 1) % (columns + 1)
        IN  IF j = columns THEN "\n" ELSE IF Alive(bitmap, i, j) THEN "*" ELSE "."]

\* operator<<: per row i the characters of the cells (j, i), then '\n'
Output(bitmap) ==
    [k \in 1..(rows * (columns + 1)) |->
        LET i == (k - 1) \div (columns + 1)
            j == (k - 1) % (columns + 1)
        IN  IF j = columns THEN "\n" ELSE IF Alive(bitmap, j, i) THEN "*" ELSE "."]

\* cells(std::string_view format): the format is the sequence of its
\* characters.  row and column are unsigned and the bitmap has the bits
\* 0..63 only, so that the first test is the end of the loop; with the three
\* named in it TLC evaluates them at every character, not all at the end.
RECURSIVE ParseFrom(_, _, _, _, _, _)
ParseFrom(format, index, row, column, bitmap, build) ==
    IF index > Len(format) \/ row < 0 \/ column < 0 \/ bitmap = {-1} THEN bitmap
    ELSE LET character == format[index]
         IN  IF character = "*"
             THEN ParseFrom(format, index + 1, row, column + 1,
                            set(bitmap, column + row * columns, WordBits, build), build)
             ELSE IF character = "."
             THEN ParseFrom(format, index + 1, row, column + 1, bitmap, build)
             ELSE IF character = "$"
             THEN ParseFrom(format, index + 1, row + 1, 0, bitmap, build)
             ELSE ParseFrom(format, index + 1, row, column, bitmap, build)

\* a constructor that takes every character but '*' and '$' for a dead cell
FromFormat_OthersAreCells(format, build) ==
    ParseFrom([i \in 1..Len(format) |->
                  IF format[i] \in {"*", "$"} THEN format[i] ELSE "."], 1, 0, 0, {}, build)

FromFormat(format, build) == ParseFrom(format, 1, 0, 0, {}, build)

\* a factory: its format stays within the 64 cells, so that every build
\* makes the same block of it
Factory(format) == FromFormat(format, CHOOSE build \in Builds : TRUE)

\* cells{"$$$$$$$$"}
empty_square == Factory(<<"$", "$", "$", "$", "$", "$", "$", "$">>)

\* "$$$...**...$...**...$$$$"
block_format ==
    <<"$", "$", "$", ".", ".", ".", "*", "*", ".", ".", ".",
      "$", ".", ".", ".", "*", "*", ".", ".", ".", "$", "$", "$", "$">>

\* cells{"$$$...**...$...**...$$$$"}
block == Factory(block_format)

\* cells{"$$$...**$..*..*$...**$$$"}
beehive == Factory(<<"$", "$", "$", ".", ".", ".", "*", "*", "$", ".",
    ".", "*", ".", ".", "*", "$", ".", ".", ".", "*", "*", "$", "$", "$">>)

\* cells{"$$...**$..*..*$...*.*$....*$$$"}
loaf == Factory(<<"$", "$", ".", ".", ".", "*", "*", "$", ".", ".", "*",
    ".", ".", "*", "$", ".", ".", ".", "*", ".", "*", "$", ".", ".", ".",
    ".", "*", "$", "$", "$">>)

\* cells{"$$$..**$..*.*$...*$$$"}
boat == Factory(<<"$", "$", "$", ".", ".", "*", "*", "$", ".", ".", "*",
    ".", "*", "$", ".", ".", ".", "*", "$", "$", "$">>)

\* cells{"$$$...*$..*.*$...*$$$"}
tub == Factory(<<"$", "$", "$", ".", ".", ".", "*", "$", ".", ".", "*",
    ".", "*", "$", ".", ".", ".", "*", "$", "$", "$">>)

\* cells{"$$.***$$$$$$"}
blinker == Factory(<<"$", "$", ".", "*", "*", "*", "$", "$", "$", "$",
    "$", "$">>)

\* cells{"$$$...***$..***$$$$"}
toad == Factory(<<"$", "$", "$", ".", ".", ".", "*", "*", "*", "$", ".",
    ".", "*", "*", "*", "$", "$", "$", "$">>)

\* cells{"$$..**$..**$....**$....**$$$"}
beacon == Factory(<<"$", "$", ".", ".", "*", "*", "$", ".", ".", "*",
    "*", "$", ".", ".", ".", ".", "*", "*", "$", ".", ".", ".", ".", "*",
    "*", "$", "$", "$">>)

\* cells{"$$...*$..*$..***$$$$"}
glider == Factory(<<"$", "$", ".", ".", ".", "*", "$", ".", ".", "*",
    "$", ".", ".", "*", "*", "*", "$", "$", "$", "$">>)

\* cells{"$$$..*$.*$.***$$$"}, the glider one cell further down and to the left
moved_glider == Factory(<<"$", "$", "$", ".", ".", "*", "$", ".", "*", "$", ".", "*", "*",
    "*", "$", "$", "$">>)

StillLifes == {empty_square, block, beehive, loaf, boat, tub}
Oscillators == {blinker, toad, beacon}

\* the pattern of width by height cells, given by the set of its live cells
\* u + width*v, repeated over the 8x8 square
Tile(pattern, width, height) ==
    {x + y * columns : <<x, y>> \in
        {c \in (0..(columns - 1)) \X (0..(rows - 1)) :
            ((c[1] % width) + width * (c[2] % height)) \in pattern}}

\* the blocks the calls are made on: the factories; every 3x3 tile (over
\* the 512 of them every cell of the square meets every configuration of
\* its 3x3 neighbourhood); every 4x2 and every 2x4 tile
CellsInputs ==
    StillLifes \cup Oscillators \cup {glider, filled}
        \cup {Tile(pattern, 3, 3) : pattern \in SUBSET (0..8)}
        \cup {Tile(pattern, 4, 2) : pattern \in SUBSET (0..7)}
        \cup {Tile(pattern, 2, 4) : pattern \in SUBSET (0..7)}

\* the record of a call keeps the objects the earlier calls were made on
\* (args) and which calls they were (ops)
InitCells ==
    /\ cells \in CellsInputs
    /\ last = [op |-> "cells", args |-> <<>>, ops |-> <<>>]
    /\ arena = NoArena
    /\ value = NoValue
    /\ pointer = NoPointer
    /\ node = NoNode
    /\ copied = NoCopy
    /\ NoSet

StepCall ==
    /\ Len(last.ops) < MaxCalls
    /\ cells' = step(cells)
    /\ last' = [op |-> "step", args |-> Append(last.args, cells), ops |-> Append(last.ops, "step")]
    /\ UNCHANGED <<capacity, sentinels, elements, size, emplaced, handles, clears, arena, value, pointer, node, copied>>

NextCall ==
    /\ Len(last.ops) < MaxCalls
    /\ cells' = next(cells)
    /\ last' = [op |-> "next", args |-> Append(last.args, cells), ops |-> Append(last.ops, "next")]
    /\ UNCHANGED <<capacity, sentinels, elements, size, emplaced, handles, clears, arena, value, pointer, node, copied>>

NextOfCells == StepCall \/ NextCall

SpecCells == InitCells /\ [][NextOfCells]_vars

(***************************************************************************)
(* The stitches center, horizontal and vertical: a block made of the       *)
(* quarters or halves of its neighbours that face each other.              *)
(***************************************************************************)
\* the columns 0..3 (west) and 4..7 (east), the rows 0..3 (north) and 4..7
\* (south) of a block
WestHalf == Word(<<15, 15, 15, 15, 15, 15, 15, 15>>)
EastHalf == Word(<<240, 240, 240, 240, 240, 240, 240, 240>>)
NorthHalf == Word(<<0, 0, 0, 0, 255, 255, 255, 255>>)
SouthHalf == Word(<<255, 255, 255, 255, 0, 0, 0, 0>>)

\* half a block: 4 columns, 4 rows
Half == columns \div 2

\* a center that does not cut the quarters out of the moved blocks
center_Unmasked(nw, ne, sw, se) ==
    Or(Or(ShiftRight(nw, Half * columns + Half), ShiftRight(ne, Half * columns - Half)),
       Or(ShiftLeft(sw, Half * columns - Half), ShiftLeft(se, Half * columns + Half)))

\* center(nw, ne, sw, se): the SE quarter of nw, the SW quarter of ne, the
\* NE quarter of sw and the NW quarter of se, each moved to the opposite
\* corner
center(nw, ne, sw, se) ==
    Or(Or(And(ShiftRight(nw, Half * columns + Half), And(WestHalf, NorthHalf)),
          And(ShiftRight(ne, Half * columns - Half), And(EastHalf, NorthHalf))),
       Or(And(ShiftLeft(sw, Half * columns - Half), And(WestHalf, SouthHalf)),
          And(ShiftLeft(se, Half * columns + Half), And(EastHalf, SouthHalf))))

\* horizontal(west, east): the east half of west and the west half of east
horizontal(west, east) ==
    Or(And(ShiftRight(west, Half), WestHalf), And(ShiftLeft(east, Half), EastHalf))

\* vertical(north, south): the south half of north and the north half of south
vertical(north, south) ==
    Or(And(ShiftRight(north, Half * columns), NorthHalf),
       And(ShiftLeft(south, Half * columns), SouthHalf))

\* the blocks that are stitched
StitchInputs ==
    {filled, empty_square, glider, loaf, Tile({0}, 3, 3), Tile({1, 2, 4}, 2, 4)}

InitStitch ==
    /\ cells \in StitchInputs
    /\ last = [op |-> "cells", args |-> <<>>]
    /\ arena = NoArena
    /\ value = NoValue
    /\ pointer = NoPointer
    /\ node = NoNode
    /\ copied = NoCopy
    /\ NoSet

\* cells::center(cells, ne, sw, se) and the like, with the block under test
\* as the first argument
CenterCall(ne, sw, se) ==
    /\ last.op = "cells"
    /\ cells' = center(cells, ne, sw, se)
    /\ last' = [op |-> "center", args |-> <<cells, ne, sw, se>>]
    /\ UNCHANGED <<capacity, sentinels, elements, size, emplaced, handles, clears, arena, value, pointer, node, copied>>

HorizontalCall(east) ==
    /\ last.op = "cells"
    /\ cells' = horizontal(cells, east)
    /\ last' = [op |-> "horizontal", args |-> <<cells, east>>]
    /\ UNCHANGED <<capacity, sentinels, elements, size, emplaced, handles, clears, arena, value, pointer, node, copied>>

VerticalCall(south) ==
    /\ last.op = "cells"
    /\ cells' = vertical(cells, south)
    /\ last' = [op |-> "vertical", args |-> <<cells, south>>]
    /\ UNCHANGED <<capacity, sentinels, elements, size, emplaced, handles, clears, arena, value, pointer, node, copied>>

NextStitch ==
    \/ \E ne, sw, se \in StitchInputs : CenterCall(ne, sw, se)
    \/ \E east \in StitchInputs : HorizontalCall(east)
    \/ \E south \in StitchInputs : VerticalCall(south)

SpecStitch == InitStitch /\ [][NextStitch]_vars

(***************************************************************************)
(* The textual constructor and the printer.                                *)
(***************************************************************************)
\* the characters of a format: live, dead, next row, and two the format
\* does not know
Characters == {"*", ".", "$", "x", "\n"}

Repeat(character, n) == [i \in 1..n |-> character]

RECURSIVE Strings(_)
Strings(n) ==
    IF n = 0 THEN {<<>>}
    ELSE LET shorter == Strings(n - 1)
         IN  shorter \cup {Append(text, character) :
                               text \in shorter, character \in Characters}

\* the formats the blocks are made from: up to rows + 1 rows begun, up to
\* columns dead cells, then up to MaxBody characters of any kind; and the
\* format of the block
Formats ==
    {Repeat("$", k) \o Repeat(".", p) \o body :
        k \in 0..(rows + 1), p \in 0..columns, body \in Strings(MaxBody)}
        \cup {block_format}

\* cells{format} or cells{bitmap}
InitText ==
    /\ \/ \E format \in Formats, build \in Builds :
             /\ cells = FromFormat(format, build)
             /\ last = [op |-> "cells", format |-> format, build |-> build, printed |-> {}]
       \/ /\ cells \in CellsInputs
          /\ last = [op |-> "bitmap"]
    /\ arena = NoArena
    /\ value = NoValue
    /\ pointer = NoPointer
    /\ node = NoNode
    /\ copied = NoCopy
    /\ NoSet

\* os << cells
OutputCall ==
    /\ last.op # "print"
    /\ last' = [op |-> "print", text |-> Output(cells)]
    /\ UNCHANGED <<capacity, sentinels, elements, size, emplaced, handles, clears, arena, cells, value, pointer, node, copied>>

\* cells{text} of the text that was printed; the record keeps the block
\* that was printed
ParseCall(build) ==
    /\ last.op = "print"
    /\ cells' = FromFormat(last.text, build)
    /\ last' = [op |-> "cells", format |-> last.text, build |-> build, printed |-> {cells}]
    /\ UNCHANGED <<capacity, sentinels, elements, size, emplaced, handles, clears, arena, value, pointer, node, copied>>

NextText ==
    \/ OutputCall
    \/ \E build \in Builds : ParseCall(build)

SpecText == InitText /\ [][NextText]_vars

(***************************************************************************)
(* bitwise.hpp on the unsigned integer value = [width, bits]: unsigned (32  *)
(* bits, the type of the unit tests) and std::uint64_t (the bitmap).        *)
(***************************************************************************)
Widths == {32, WordBits}

\* the bit positions the words of the tests are made of
SampleBits(width) == {0, 1, 2, 3, width - 1}

\* the other operands of the adders
AdderWords(width) == SUBSET {0, width - 1}

\* the indexes asked for: within the word, its last bit, and past its end
Indexes(width) == {0, 1, 2, 3, 4, width - 1, width, width + 1}

\* the other variables while bitwise.hpp or the pointer is under test
NoOthers ==
    /\ arena = NoArena
    /\ cells = NoCells
    /\ NoSet

InitBits ==
    /\ \E width \in Widths : \E bits \in SUBSET SampleBits(width) :
           value = [width |-> width, bits |-> bits]
    /\ last = [op |-> "value"]
    /\ pointer = NoPointer
    /\ node = NoNode
    /\ copied = NoCopy
    /\ NoOthers

HalfAddCall(right) ==
    /\ last' = [op |-> "half_add", args |-> <<value.bits, right>>,
                result |-> half_add(value.bits, right)]
    /\ UNCHANGED <<capacity, sentinels, elements, size, emplaced, handles, clears, arena, cells, value, pointer, node, copied>>

FullAddCall(right, carry) ==
    /\ last' = [op |-> "full_add", args |-> <<value.bits, right, carry>>,
                result |-> full_add(value.bits, right, carry)]
    /\ UNCHANGED <<capacity, sentinels, elements, size, emplaced, handles, clears, arena, cells, value, pointer, node, copied>>

BitCall(index, build) ==
    /\ last' = [op |-> "bit", index |-> index, build |-> build,
                result |-> bit(value.bits, index, value.width, build)]
    /\ UNCHANGED <<capacity, sentinels, elements, size, emplaced, handles, clears, arena, cells, value, pointer, node, copied>>

SetCall(index, build) ==
    /\ value' = [value EXCEPT !.bits = set(@, index, value.width, build)]
    /\ last' = [op |-> "set", index |-> index, build |-> build, before |-> value.bits]
    /\ UNCHANGED <<capacity, sentinels, elements, size, emplaced, handles, clears, arena, cells, pointer, node, copied>>

NextBits ==
    \/ \E right \in AdderWords(value.width) : HalfAddCall(right)
    \/ \E right, carry \in AdderWords(value.width) : FullAddCall(right, carry)
    \/ \E index \in Indexes(value.width), build \in Builds : BitCall(index, build)
    \/ \E index \in Indexes(value.width), build \in Builds : SetCall(index, build)

SpecBits == InitBits /\ [][NextBits]_vars

(***************************************************************************)
(* life::pointer: a 32-bit offset into a node table.  The numbers are      *)
(* sequences of 16-bit limbs, lowest limb first, so that the std::size_t   *)
(* of a 64-bit platform (4 limbs) and the std::uint32_t offset (2 limbs)   *)
(* keep their widths.                                                      *)
(***************************************************************************)
LimbMax == 65535

\* the limbs of a std::uint32_t and of a std::size_t
OffsetLimbs == 2
SizeLimbs == 4

\* std::numeric_limits<std::uint32_t>::max()
null_value == <<LimbMax, LimbMax>>

\* (std::uint32_t)offset: the low 32 bits
Truncate(number) == SubSeq(number, 1, OffsetLimbs)

\* static_cast<std::size_t>(offset): zero-extended
Widen(offset) == offset \o [n \in 1..(SizeLimbs - OffsetLimbs) |-> 0]

\* pointer(std::nullptr_t = nullptr)
FromNullptr == null_value

\* pointer(std::size_t offset)
FromIndex(number) == Truncate(number)

\* operator bool
ToBool(offset) == offset # null_value

\* operator==
Equals(offset, other) == offset = other

\* hash()
HashOf(offset) == offset

\* index()
IndexOf(offset) == Widen(offset)

\* the indexes a pointer is made of: the low and the high 32 bits, among
\* them 0, the 3, 5 and 6 of the tests, 2^32 - 2, 2^32 - 1, and numbers at
\* and above 2^32
LowWords == {<<0, 0>>, <<3, 0>>, <<5, 0>>, <<6, 0>>, <<0, 1>>,
             <<LimbMax - 1, LimbMax>>, <<LimbMax, LimbMax>>}
HighWords == {<<0, 0>>, <<1, 0>>, <<LimbMax, LimbMax>>}
SizeIndexes == {low \o high : low \in LowWords, high \in HighWords}

\* what a pointer is made of: an index, or nullptr
Nullptr == <<>>

\* pointer p = nullptr; or pointer p = number; the pointer has no operation
\* that changes it afterwards
InitPointer ==
    /\ \/ /\ pointer = FromNullptr
          /\ last = [op |-> "pointer", from |-> Nullptr]
       \/ \E number \in SizeIndexes :
              /\ pointer = FromIndex(number)
              /\ last = [op |-> "pointer", from |-> number]
    /\ value = NoValue
    /\ node = NoNode
    /\ copied = NoCopy
    /\ NoOthers

\* if (p)
ToBoolCall ==
    /\ last' = [op |-> "bool", from |-> last.from, result |-> ToBool(pointer)]
    /\ UNCHANGED <<capacity, sentinels, elements, size, emplaced, handles, clears, arena, cells, value, pointer, node, copied>>

\* p.index()
IndexCall ==
    /\ last' = [op |-> "index", from |-> last.from, result |-> IndexOf(pointer)]
    /\ UNCHANGED <<capacity, sentinels, elements, size, emplaced, handles, clears, arena, cells, value, pointer, node, copied>>

\* p.hash()
HashCall ==
    /\ last' = [op |-> "hash", from |-> last.from, result |-> HashOf(pointer)]
    /\ UNCHANGED <<capacity, sentinels, elements, size, emplaced, handles, clears, arena, cells, value, pointer, node, copied>>

\* p == pointer(number)
EqualsCall(number) ==
    /\ last' = [op |-> "equals", from |-> last.from, other |-> number,
                result |-> Equals(pointer, FromIndex(number))]
    /\ UNCHANGED <<capacity, sentinels, elements, size, emplaced, handles, clears, arena, cells, value, pointer, node, copied>>

NextPointer ==
    \/ ToBoolCall
    \/ IndexCall
    \/ HashCall
    \/ \E number \in SizeIndexes : EqualsCall(number)

SpecPointer == InitPointer /\ [][NextPointer]_vars

(***************************************************************************)
(* hash.hpp: hash_combine and variadic_hash, in the arithmetic of the      *)
(* types of a 64-bit platform: std::size_t has 4 limbs, unsigned int and   *)
(* std::uint32_t have 2.                                                   *)
(***************************************************************************)
LimbBase == LimbMax + 1
LimbBits == 16

RECURSIVE Power2(_)
Power2(n) == IF n = 0 THEN 1 ELSE 2 * Power2(n - 1)

\* a ^ b of two limbs
RECURSIVE XorLimb(_, _)
XorLimb(a, b) ==
    IF a = 0 THEN b
    ELSE IF b = 0 THEN a
    ELSE ((a + b) % 2) + 2 * XorLimb(a \div 2, b \div 2)

\* a ^ b
XorWide(a, b) == [n \in 1..Len(a) |-> XorLimb(a[n], b[n])]

\* the carry out of the limbs 1..n of a + b
RECURSIVE Carry(_, _, _)
Carry(a, b, n) ==
    IF n = 0 THEN 0 ELSE (a[n] + b[n] + Carry(a, b, n - 1)) \div LimbBase

\* a + b of two unsigned numbers of the same type: modulo 2^width
AddWide(a, b) ==
    [n \in 1..Len(a) |-> (a[n] + b[n] + Carry(a, b, n - 1)) % LimbBase]

\* a << k and a >> k for 0 < k < 16
ShiftLeftWide(a, k) ==
    [n \in 1..Len(a) |->
        ((a[n] * Power2(k)) % LimbBase)
            + (IF n > 1 THEN a[n - 1] \div Power2(LimbBits - k) ELSE 0)]

ShiftRightWide(a, k) ==
    [n \in 1..Len(a) |->
        (a[n] \div Power2(k))
            + (IF n < Len(a) THEN (a[n + 1] % Power2(k)) * Power2(LimbBits - k) ELSE 0)]

\* 0x9e3779b9, an unsigned int
Golden == <<31161, 40503>>

\* std::size_t seed = 42
Seed == <<42, 0, 0, 0>>

\* seed ^= std::hash<T>{}(v) + 0x9e3779b9 + (seed << 6) + (seed >> 2), for
\* a std::hash<T> that returns a std::uint32_t: the first sum is an unsigned
\* int, the others are std::size_t
hash_combine(seed, hashed) ==
    XorWide(seed, AddWide(AddWide(Widen(AddWide(hashed, Golden)),
                                  ShiftLeftWide(seed, 6)),
                          ShiftRightWide(seed, 2)))

\* variadic_hash(arguments...) of pointers: the fold of hash_combine over
\* them, left to right
RECURSIVE CombineAll(_, _, _)
CombineAll(seed, arguments, n) ==
    IF n > Len(arguments) THEN seed
    ELSE CombineAll(hash_combine(seed, HashOf(arguments[n])), arguments, n + 1)

variadic_hash(arguments) == CombineAll(Seed, arguments, 1)

(***************************************************************************)
(* life::macrocell: four children and the two memoised futures             *)
(* <<step, next>>.                                                         *)
(***************************************************************************)
\* a constructor that stores the children as ne, nw, sw, se
macrocell_SwapsNorth(nw, ne, sw, se) ==
    [future |-> <<FromNullptr, FromNullptr>>, children |-> <<ne, nw, sw, se>>]

\* macrocell(nw, ne, sw, se)
macrocell(nw, ne, sw, se) ==
    [future |-> <<FromNullptr, FromNullptr>>, children |-> <<nw, ne, sw, se>>]

\* operator==
EqualsMacrocell(left, right) ==
    left.future = right.future /\ left.children = right.children

\* hash()
HashMacrocell(cell) == variadic_hash(cell.children)

\* step(), next(), nw(), ne(), sw(), se()
StepOf(cell) == cell.future[1]
NextOf(cell) == cell.future[2]
NwOf(cell) == cell.children[1]
NeOf(cell) == cell.children[2]
SwOf(cell) == cell.children[3]
SeOf(cell) == cell.children[4]

\* the pointers macrocells are made of: two slots of a table and null for
\* the northern children, one of the slots and null for the southern
ChildPointers ==
    {FromIndex(<<6878, 0, 0, 0>>), FromIndex(<<7133, 0, 0, 0>>), FromNullptr}
SouthPointers == {FromIndex(<<6878, 0, 0, 0>>), FromNullptr}

\* the pointers a computed future is: slots of a table
FuturePointers == {p \in ChildPointers : ToBool(p)}

ChildTuples ==
    {<<nw, ne, sw, se>> : nw \in ChildPointers, ne \in ChildPointers,
                          sw \in SouthPointers, se \in SouthPointers}

\* hash() of the macrocells of these children, computed once: the pairs of
\* the children and the hash
HashPairs ==
    {<<children, HashMacrocell([children |-> children])>> : children \in ChildTuples}

Hashed(cell) == (CHOOSE pair \in HashPairs : pair[1] = cell.children)[2]

\* a memoised future that is computed and stored on every call
Memoised_Recomputes(cell, slot, computed) ==
    [cell |-> [cell EXCEPT !.future[slot] = computed],
     result |-> computed, computed |-> TRUE]

\* the memoised future of a macrocell: the slot is read; when it is null the
\* future is computed, stored in the slot and returned
Memoised(cell, slot, computed) ==
    IF ToBool(cell.future[slot])
    THEN [cell |-> cell, result |-> cell.future[slot], computed |-> FALSE]
    ELSE [cell |-> [cell EXCEPT !.future[slot] = computed],
          result |-> computed, computed |-> TRUE]

InitMacrocell ==
    /\ \E nw, ne \in ChildPointers, sw, se \in SouthPointers :
           /\ node = macrocell(nw, ne, sw, se)
           /\ last = [op |-> "macrocell", args |-> <<nw, ne, sw, se>>]
    /\ value = NoValue
    /\ copied = NoCopy
    /\ pointer = NoPointer
    /\ NoOthers

\* m.step(), m.next(), m.nw(), m.ne(), m.sw(), m.se() right after construction
GettersCall ==
    /\ last.op = "macrocell"
    /\ last' = [op |-> "getters", args |-> last.args,
                future |-> <<StepOf(node), NextOf(node)>>,
                children |-> <<NwOf(node), NeOf(node), SwOf(node), SeOf(node)>>]
    /\ UNCHANGED <<capacity, sentinels, elements, size, emplaced, handles, clears, arena, cells, value, pointer, node, copied>>

\* m == macrocell(nw, ne, sw, se), with the hashes of the two
CompareCall(nw, ne, sw, se) ==
    LET other == macrocell(nw, ne, sw, se)
    IN  /\ last' = [op |-> "compare", other |-> other,
                    equal |-> EqualsMacrocell(node, other),
                    hashes |-> <<Hashed(node), Hashed(other)>>]
        /\ UNCHANGED <<capacity, sentinels, elements, size, emplaced, handles, clears, arena, cells, value, pointer, node, copied>>

\* the one-generation future of m, memoised in its first slot
MemoStepCall(computed) ==
    LET memo == Memoised(node, 1, computed)
    IN  /\ node' = memo.cell
        /\ last' = [op |-> "step", result |-> memo.result, computed |-> memo.computed]
        /\ UNCHANGED <<capacity, sentinels, elements, size, emplaced, handles, clears, arena, cells, value, pointer, copied>>

\* the jump-step future of m, memoised in its second slot
MemoNextCall(computed) ==
    LET memo == Memoised(node, 2, computed)
    IN  /\ node' = memo.cell
        /\ last' = [op |-> "next", result |-> memo.result, computed |-> memo.computed]
        /\ UNCHANGED <<capacity, sentinels, elements, size, emplaced, handles, clears, arena, cells, value, pointer, copied>>

\* a reset of the tables: the macrocell is interned anew, made of its children
ResetCall ==
    /\ last.op # "reset"
    /\ node' = macrocell(NwOf(node), NeOf(node), SwOf(node), SeOf(node))
    /\ last' = [op |-> "reset", args |-> node.children]
    /\ UNCHANGED <<capacity, sentinels, elements, size, emplaced, handles, clears, arena, cells, value, pointer, copied>>

NextMacrocell ==
    \/ GettersCall
    \/ \E nw, ne \in ChildPointers, sw, se \in SouthPointers : CompareCall(nw, ne, sw, se)
    \/ \E computed \in FuturePointers : MemoStepCall(computed)
    \/ \E computed \in FuturePointers : MemoNextCall(computed)
    \/ ResetCall

SpecMacrocell == InitMacrocell /\ [][NextMacrocell]_vars

TypeOK ==
    /\ capacity \in 1..WideCapacity
    /\ size \in Nat
    /\ last.it \in 0..capacity

(***************************************************************************)
(* Properties of the table.                                                *)
(***************************************************************************)
Occupied == {i \in Slots : sentinels[i].filled}

Home(key) == HashMod(Hash(key), capacity)

\* the key sits in some occupied slot
Present(key) == \E i \in Occupied : elements[i] = key

\* C1: deduplication - in every reachable state no two occupied slots hold
\* equal keys.
C1_Deduplication ==
    \A i, j \in Occupied : i # j => elements[i] # elements[j]

\* an emplace of a key that sits displaced from its home slot was turned down
C1_Witness ==
    /\ last.op = "emplace" /\ ~last.inserted
    /\ Present(last.key)
    /\ last.it # Home(last.key)
    /\ Cardinality(Occupied) >= 2

\* C2: double intern - when emplace(x) inserted x and returned iterator it, an
\* immediately following emplace(x) returns (it, false) and leaves size alone.
C2_DoubleIntern ==
    [][(/\ last.op = "emplace" /\ last.inserted
        /\ last'.op = "emplace" /\ last'.key = last.key)
       => (last'.it = last.it /\ ~last'.inserted /\ size' = size)]_vars

\* C3: reference stability - every iterator that emplace returned together
\* with inserted = true points, until the next clear, at an occupied slot that
\* holds the emplaced key.
C3_ReferenceStability ==
    \A h \in handles : h.it \in Occupied /\ elements[h.it] = h.key

\* C4: among the emplace results with inserted = false the iterator is end()
\* exactly when the key is absent (probe saturation) and otherwise points at
\* the existing entry.
C4_SaturationReturnsEnd ==
    (last.op = "emplace" /\ ~last.inserted)
        => IF Present(last.key)
           THEN last.it \in Occupied /\ elements[last.it] = last.key
           ELSE last.it = End

\* C5: find correctness - find(k) is an occupied slot holding k when k was
\* emplaced successfully since construction or the last clear, and end()
\* otherwise.
C5_FindCorrect ==
    \A key \in AllKeys :
        IF key \in emplaced
        THEN Find(key) \in Occupied /\ elements[Find(key)] = key
        ELSE Find(key) = End

\* find returned a key that collided, was displaced past the end of the array
\* and wrapped round to the front
C5_Witness ==
    /\ last.op = "find" /\ last.key \in emplaced
    /\ last.it # End /\ last.it < Home(last.key)
    /\ Cardinality(emplaced) >= 2

\* C6: a fresh (never cleared) set whose capacity is within the probe window
\* fills up - an emplace of a key that is not in it is turned down only when
\* capacity keys are in it, size counts the keys emplaced, and find reaches
\* each of them.
C6_FillsToCapacity ==
    (clears = 0 /\ capacity <= ProbeLimit)
        => /\ size = Cardinality(emplaced)
           /\ \A key \in emplaced : Find(key) # End
           /\ (last.op = "emplace" /\ ~last.inserted /\ last.key \notin emplaced)
                  => Cardinality(emplaced) = capacity

\* the last free slot of a never-cleared table was just taken by a key whose
\* home slot is another one
C6_Witness ==
    /\ clears = 0 /\ capacity >= 2
    /\ last.op = "emplace" /\ last.inserted
    /\ size = capacity /\ Cardinality(emplaced) = capacity
    /\ elements[Home(last.key)] # last.key

\* C7: no deletion, no overwrite - a step of any call but clear leaves every
\* occupied slot occupied with the same tag and the same key.
C7_NoOverwrite ==
    [][last'.op # "clear"
       => \A i \in Occupied : sentinels'[i] = sentinels[i] /\ elements'[i] = elements[i]]_vars

\* a key was inserted next to the occupant of its home slot
C7_Witness ==
    /\ last.op = "emplace" /\ last.inserted
    /\ last.it \in Occupied
    /\ elements[last.it] # last.key
    /\ Present(last.key)

\* C8: right after clear() no slot is occupied and find(k) is end() for
\* every key, the stale keys left in the element array included.
C8_ClearEmpties ==
    last.op = "clear" => (Occupied = {} /\ \A key \in AllKeys : Find(key) = End)

\* a cleared table whose element array still holds keys emplaced before
C8_Witness ==
    /\ last.op = "clear"
    /\ size >= 2
    /\ \E i \in Slots : elements[i] \notin IndeterminateInts /\ Home(elements[i]) # i

\* C9: an emplace that returns inserted = false leaves every sentinel, every
\* element and size as they were.
C9_FailedEmplaceFrame ==
    [][(last'.op = "emplace" /\ ~last'.inserted)
       => (sentinels' = sentinels /\ elements' = elements /\ size' = size)]_vars

\* emplace was turned down by a saturated probe window although the table
\* has free slots
C9_Witness ==
    /\ last.op = "emplace" /\ ~last.inserted
    /\ ~Present(last.key)
    /\ Occupied # Slots

\* C10: ++ on an iterator at an occupied slot moves it to the next occupied
\* slot of higher index, or to end() when there is none.
C10_AdvanceReachesEnd ==
    [][(/\ last'.op \in {"advance", "hang"}
        /\ last.it \in Occupied)
       => (/\ last'.op = "advance"
           /\ last'.it > last.it
           /\ last'.it \in Occupied \cup {End}
           /\ \A i \in Occupied : ~(last.it < i /\ i < last'.it))]_vars

\* empty(): _size == 0
Empty == size = 0

\* C11: copy - a copy of the set, taken in any reachable state, finds exactly
\* the keys the original found (find(k) # end() for the same keys k) and
\* reports the same size().
C11_CopyAnswersAlike ==
    last.op = "copy" =>
        /\ \A key \in AllKeys : (Find(key) # End) <=> (key \in last.found)
        /\ size = last.size

\* a copy taken after emplace(1) finds 1, does not find 2 and has size 1
C11_Witness ==
    /\ last.op = "copy"
    /\ Find(1) # End
    /\ Find(2) = End
    /\ 1 \in last.found
    /\ size = 1

\* C12: fresh set - a set just constructed with a capacity C > 0 has
\* size() = 0, empty() is true and find(k) = end() for every key k.
C12_FreshSetEmpty ==
    last.op = "construct" =>
        /\ capacity > 0
        /\ size = 0
        /\ Empty
        /\ \A key \in AllKeys : Find(key) = End

\* a fresh table of the largest capacity whose storage holds the value 0
C12_Witness ==
    /\ last.op = "construct"
    /\ capacity = MaxCapacity
    /\ \A i \in Slots : elements[i] = 0

\* C13: capacity zero - constructing with capacity 0 throws the domain error
\* and leaves no set to call (no call of the client is enabled); every
\* capacity C > 0 constructs without the error and the set takes calls.
C13_ZeroCapacityRejected ==
    /\ capacity = 0 => last.op = "domain_error" /\ ~ENABLED NextAny
    /\ capacity > 0 => last.op # "domain_error"
    /\ last.op = "construct" => capacity > 0 /\ ENABLED NextAny

\* the construction with capacity 0 has thrown
C13_Witness ==
    /\ capacity = 0
    /\ last.op = "domain_error"
    /\ last.it = 0

\* the number of slots from `from` on to `to`, cyclically
Distance(from, to) == (to - from + capacity) % capacity

\* the probe window: min(10, capacity()) slots
Window == IF capacity < ProbeLimit THEN capacity ELSE ProbeLimit

\* the offsets from the home slot of `key` of the empty slots of its window
EmptyInWindow(key) ==
    {e \in 0..(Window - 1) : SentinelEmpty((Home(key) + e) % capacity)}

Least(offsets) == CHOOSE e \in offsets : \A other \in offsets : e <= other

\* C35: bounded insertion probe - emplace of an absent key stores it in the
\* first empty slot among the min(10, C) slots from its home slot on,
\* cyclically, and fails, changing nothing, exactly when all of them are
\* occupied, empty slots further on or not.
C35_BoundedProbe ==
    [][(last'.op = "emplace" /\ ~Present(last'.key)) =>
          IF EmptyInWindow(last'.key) = {}
          THEN ~last'.inserted /\ sentinels' = sentinels /\ elements' = elements
          ELSE LET first == (Home(last'.key) + Least(EmptyInWindow(last'.key))) % capacity
               IN  /\ last'.inserted
                   /\ sentinels'[first].filled
                   /\ elements'[first] = last'.key
                   /\ \A i \in Slots \ {first} :
                          sentinels'[i] = sentinels[i] /\ elements'[i] = elements[i]]_vars

C37_SizeCountsOccupied ==
    /\ size = Cardinality(Occupied)
    /\ (size = 0) <=> (Occupied = {})
    /\ last.op = "clear" => size = 0
    /\ size \in 0..capacity

\* C38: probe chain - for every occupied slot s with key k, all slots from
\* the home slot of k up to s are occupied, and s lies within the probe
\* window of min(10, C) slots from the home slot.
C38_ProbeChain ==
    \A s \in Occupied :
        LET home == Home(elements[s])
        IN  /\ Distance(home, s) < Window
            /\ \A e \in 0..Distance(home, s) : sentinels[(home + e) % capacity].filled

\* a key sits in a slot before its home slot: its chain wraps round the end
\* of the array; and a key sits at the last slot of the window of 10
C38_Witness ==
    \/ \E s \in Occupied : s < Home(elements[s])
    \/ \E s \in Occupied : Distance(Home(elements[s]), s) = ProbeLimit - 1

\* C39: lookup terminates - on every reachable table, a full one included,
\* find of every key, present or absent, whatever its home slot, returns
\* (and so does the find at the start of emplace).
C39_LookupTerminates == last.op # "hang"
(***************************************************************************)
(* Properties of the arena.                                                *)
(***************************************************************************)
\* C14: exhaustion - allocate(n) with head + n > N returns null and leaves
\* head, and with it full(), as it was before the call.
C14_FailedAllocateLeavesHead ==
    (last.op = "allocate" /\ last.head + last.n > arena.size) =>
        /\ last.ptr = Null
        /\ arena.head = last.head
        /\ Full <=> (last.head = arena.size)

\* C40: after a dense_set was copied, an emplace or a clear on one of the
\* two sets leaves every slot, tag and key and the size of the other set
\* as they were: the copy owns its own element and sentinel buffers.
C40_CopyIndependent ==
    [][(copied # NoCopy /\ last'.op \in {"emplace", "clear"})
        => /\ copied'.capacity = copied.capacity
           /\ copied'.sentinels = copied.sentinels
           /\ copied'.elements = copied.elements
           /\ copied'.size = copied.size]_vars

\* an emplace stored a key in one of the two sets after the copy was made
\* and the calls had gone to either of them, and the two sets differ now
C40_Witness ==
    /\ copied # NoCopy
    /\ last.op = "emplace"
    /\ last.inserted
    /\ copied.sentinels # sentinels
    /\ copied.size > 0
    /\ copied.size # size

\* a request that does not fit any more was made of an arena that is partly
\* handed out
C14_Witness ==
    /\ last.op = "allocate"
    /\ last.ptr = Null
    /\ last.head > 0
    /\ last.head < arena.size
    /\ last.n <= arena.size

\* C15: bump allocation - allocate(n) with head + n <= N returns the slots
\* [head, head + n) of before the call and advances head by exactly n; head
\* stays within 0..N; the range is disjoint from every range handed out
\* before (so the ranges are pairwise disjoint).
C15_AllocateBumpsHead ==
    /\ arena.head \in 0..arena.size
    /\ (last.op = "allocate" /\ last.head + last.n <= arena.size) =>
          /\ last.ptr = last.head
          /\ arena.head = last.head + last.n
          /\ Range(last.ptr, last.n) \cap last.taken = {}
          /\ Range(last.ptr, last.n) \subseteq 0..(arena.size - 1)

\* a second or later range of at least two slots was handed out
C15_Witness ==
    /\ last.op = "allocate"
    /\ last.ptr # Null
    /\ last.head > 0
    /\ last.n > 1

\* C16: full - full() is true exactly when every slot has been handed out
\* (head = N); the fresh arena is not full; the arena of 10 slots is not
\* full after allocate(9) and is full after allocate(10).
C16_FullAtCapacity ==
    /\ Full <=> (arena.taken = 0..(arena.size - 1))
    /\ last.op = "new" => ~Full
    /\ (last.op = "allocate" /\ last.head = 0 /\ arena.size = TestArenaSize) =>
          /\ last.n = TestArenaSize - 1 => ~Full /\ last.ptr # Null
          /\ last.n = TestArenaSize => Full /\ last.ptr # Null

\* the arena of 10 slots after allocate(10)
C16_Witness ==
    /\ arena.size = TestArenaSize
    /\ last.op = "allocate"
    /\ last.head = 0
    /\ last.n = TestArenaSize
    /\ Full
(***************************************************************************)
(* Properties of the cells: the bit kernel against the Game of Life played *)
(* cell by cell on coordinates <<x, y>>.                                   *)
(***************************************************************************)
Square(low, high) == (low..high) \X (low..high)

Coordinates(bitmap) == {c \in Square(0, columns - 1) : Alive(bitmap, c[1], c[2])}

Bitmap(live) == {c[1] + c[2] * columns : c \in live}

Around(c) == {<<c[1] + dx, c[2] + dy>> : <<dx, dy>> \in Square(-1, 1)} \ {c}

LiveNeighbours(live, c) == Cardinality(Around(c) \cap live)

\* the normal Game of Life rules (B3/S23)
Rule(alive, count) == count = 3 \/ (alive /\ count = 2)

\* the next generation of the cells of a region, given the live cells
Generation(live, region) == {c \in region : Rule(c \in live, LiveNeighbours(live, c))}

\* the cells around the 8x8 square, which another block holds
Ring == Square(-1, columns) \ Square(0, columns - 1)

\* the object the last call was made on
Arg == last.args[Len(last.args)]

\* C17: step - after step() each of the 36 interior cells (rows and columns
\* 1..6) is alive exactly when the rule B3/S23, applied to the cell and its
\* eight neighbours in the input, says so, and the 28 border cells are dead;
\* nothing leaks from one row into the next through the 1-bit shifts.
C17_StepIsLife ==
    last.op = "step" =>
        /\ cells = Bitmap(Generation(Coordinates(Arg), Square(1, columns - 2)))
        /\ Coordinates(cells) \subseteq Square(1, columns - 2)

\* a step of a block with live cells at the end of row 0 and at the start
\* of row 1 that leaves live cells in both the first and the last interior
\* column
C17_Witness ==
    /\ last.op = "step"
    /\ {columns - 1, columns} \subseteq Arg
    /\ \E y \in 1..(rows - 2) : Alive(cells, 1, y)
    /\ \E y \in 1..(rows - 2) : Alive(cells, columns - 2, y)
    /\ cells # Arg

\* C18: next - next() is step() twice, cut to the inner 4x4 cells (rows and
\* columns 2..5), and these cells are what two generations of B3/S23 make
\* of the 8x8 input, whatever lies around the 8x8 square: forcing the
\* border to 0 after the first step does not reach them.
C18_NextIsTwoGenerations ==
    last.op = "next" =>
        /\ cells = And(step(step(Arg)), NextMask)
        /\ \A outside \in {{}, Ring} :
              cells = Bitmap(Generation(
                          Generation(Coordinates(Arg) \cup outside, Square(0, columns - 1)),
                          Square(2, columns - 3)))

\* a next of a block with live border cells whose first generation has live
\* border cells too, and that leaves some inner cell alive
C18_Witness ==
    /\ last.op = "next"
    /\ Coordinates(Arg) \ Square(1, columns - 2) # {}
    /\ Generation(Coordinates(Arg), Square(0, columns - 1)) \ Square(1, columns - 2) # {}
    /\ cells # {}
    /\ cells # And(Arg, NextMask)

\* C19: still lifes - for x one of empty_square, block, beehive, loaf, boat
\* and tub, step(x) = x and next(x) = x.
C19_StillLifesStay ==
    (last.op \in {"step", "next"} /\ Arg \in StillLifes) => cells = Arg

\* the loaf after step() and then next()
C19_Witness ==
    /\ last.ops = <<"step", "next">>
    /\ last.args = <<loaf, loaf>>
    /\ cells = loaf
    /\ Cardinality(cells) = 7

\* C20: oscillators - for x one of blinker, toad and beacon, step(x) # x
\* and step(step(x)) = x.
C20_OscillatorsPeriodTwo ==
    /\ (last.op = "step" /\ Arg \in Oscillators) => cells # Arg
    /\ \A n \in 2..Len(last.ops) :
          (last.ops[n - 1] = "step" /\ last.ops[n] = "step" /\ last.args[n - 1] \in Oscillators)
              => (IF n = Len(last.ops) THEN cells ELSE last.args[n + 1]) = last.args[n - 1]

\* the toad after two steps
C20_Witness ==
    /\ last.ops = <<"step", "step">>
    /\ last.args[1] = toad
    /\ last.args[2] # toad
    /\ cells = toad
    /\ Cardinality(cells) = 6
\* the block moved by dx columns and dy rows
Translate(bitmap, dx, dy) == Bitmap({<<c[1] + dx, c[2] + dy>> : c \in Coordinates(bitmap)})

\* C21: glider - four steps of the glider give the glider moved by one cell
\* diagonally, the block of the text "$$$..*$.*$.***$$$"; every generation on
\* the way is the generation of the unbounded game (all its cells lie in the
\* interior, none is lost to the border).
C21_GliderMoves ==
    (last.op = "step" /\ last.args[1] = glider /\ \A n \in 1..Len(last.ops) : last.ops[n] = "step") =>
        /\ Generation(Coordinates(Arg), Square(-1, columns)) \subseteq Square(1, columns - 2)
        /\ cells = Bitmap(Generation(Coordinates(Arg), Square(-1, columns)))
        /\ Len(last.ops) = 4 => cells = moved_glider /\ cells = Translate(glider, -1, 1)

\* the glider after four steps
C21_Witness ==
    /\ last.ops = <<"step", "step", "step", "step">>
    /\ last.args[1] = glider
    /\ cells = moved_glider
    /\ cells # glider
    /\ Cardinality(cells) = 5
(***************************************************************************)
(* Properties of bitwise.hpp.                                              *)
(***************************************************************************)
\* the bit at a position of a word, as a number
BitAt(word, i) == IF i \in word THEN 1 ELSE 0

\* C22: half adder - at every bit position i of the words a and b,
\* sum_i + 2*carry_i = a_i + b_i for <<sum, carry>> = half_add(a, b).
C22_HalfAdder ==
    last.op = "half_add" =>
        \A i \in 0..(value.width - 1) :
            BitAt(last.result[1], i) + 2 * BitAt(last.result[2], i)
                = BitAt(last.args[1], i) + BitAt(last.args[2], i)

\* both words have their lowest bit set (a carry) and differ in the highest
C22_Witness ==
    /\ last.op = "half_add"
    /\ 0 \in last.result[2]
    /\ (value.width - 1) \in last.result[1]

\* C23: full adder - at every bit position i of the words a, b and c,
\* sum_i + 2*carry_i = a_i + b_i + c_i for <<sum, carry>> = full_add(a, b, c).
C23_FullAdder ==
    last.op = "full_add" =>
        \A i \in 0..(value.width - 1) :
            BitAt(last.result[1], i) + 2 * BitAt(last.result[2], i)
                = BitAt(last.args[1], i) + BitAt(last.args[2], i) + BitAt(last.args[3], i)

\* three ones at the lowest bit; at the highest a carry that comes from
\* right and carry alone
C23_Witness ==
    /\ last.op = "full_add"
    /\ 0 \in last.result[1] \cap last.result[2]
    /\ (value.width - 1) \in (last.args[2] \cap last.args[3]) \ last.args[1]
    /\ (value.width - 1) \in last.result[2] \ last.result[1]

\* C24: bit - bit(v, i) is bit i of v for i < width(v) and false for every
\* i >= width(v).
C24_BitPastEndFalse ==
    last.op = "bit" =>
        last.result = (last.index < value.width /\ last.index \in value.bits)
(***************************************************************************)
(* Properties of the textual constructor and the printer.                  *)
(***************************************************************************)
CellCharacters == {"*", "."}

\* the row and the column a character of the format stands for
RowOf(format, i) == Cardinality({j \in 1..(i - 1) : format[j] = "$"})

ColumnOf(format, i) ==
    Cardinality({j \in 1..(i - 1) :
        format[j] \in CellCharacters /\ \A k \in j..(i - 1) : format[k] # "$"})

CellIndexes(format) == {i \in 1..Len(format) : format[i] \in CellCharacters}

\* at most 8 cells in a row
ColumnsFit(format) == \A i \in CellIndexes(format) : ColumnOf(format, i) < columns

\* ... and no cell past the 8th row
WellFormed(format) ==
    ColumnsFit(format) /\ \A i \in CellIndexes(format) : RowOf(format, i) < rows

\* the live cells a format names within the 8 rows
LiveCells(format) ==
    {ColumnOf(format, i) + columns * RowOf(format, i) :
        i \in {j \in 1..Len(format) : format[j] = "*" /\ RowOf(format, j) < rows}}

\* C25: layout - the block made from a well-formed format (at most 8 rows,
\* at most 8 cells a row) has bit c + 8*r set exactly when the character of
\* row r and column c is '*'; other characters than '*', '.' and '$' change
\* nothing; the format of the block gives 0x0000001818000000.
C25_FormatLayout ==
    last.op = "cells" =>
        /\ WellFormed(last.format) => cells = LiveCells(last.format)
        /\ last.format = block_format => cells = Word(<<0, 0, 0, 24, 24, 0, 0, 0>>)

\* a well-formed format with a live cell in the last row after dead cells,
\* followed by a character the format does not know
C25_Witness ==
    /\ last.op = "cells"
    /\ WellFormed(last.format)
    /\ Len(last.format) > 0
    /\ last.format[Len(last.format)] = "x"
    /\ \E c \in 1..(columns - 1) : cells = {c + columns * (rows - 1)}

\* C26: over-long format - a '*' met when the row is 8 or more leaves the
\* bitmap as it is (the content past the 8th row is discarded and sets no
\* bit of the rows 0..7).
C26_OverlongDiscarded ==
    (last.op = "cells" /\ ColumnsFit(last.format)) => cells = LiveCells(last.format)

\* C27: print and parse - the block made from the text that operator<<
\* prints of a block x (8 lines of 8 characters '*' or '.', each ended by a
\* newline) is x.
C27_PrintParseRoundTrip ==
    (last.op = "cells" /\ last.printed # {}) =>
        /\ last.printed = {cells}
        /\ Len(last.format) = rows * (columns + 1)
        /\ \A k \in 1..Len(last.format) :
              last.format[k] \in (IF k % (columns + 1) = 0 THEN {"\n"} ELSE CellCharacters)

\* the glider, printed and made again from the text
C27_Witness ==
    /\ last.op = "cells"
    /\ last.printed = {glider}
    /\ cells = glider
(***************************************************************************)
(* Properties of the macrocell.                                            *)
(***************************************************************************)
\* C31: equality ignores the memo - two macrocells are equal exactly when
\* their four children are equal, whatever their future slots hold, and
\* equal macrocells have equal hashes.
C31_EqualityOnChildren ==
    last.op = "compare" =>
        /\ last.equal <=> node.children = last.other.children
        /\ last.equal => last.hashes[1] = last.hashes[2]

\* C32: the hash is order sensitive - swapping different nw and ne changes
\* the hash of the macrocell, whatever sw and se are.
C32_HashOrderSensitive ==
    (/\ last.op = "compare"
     /\ NwOf(node) # NeOf(node)
     /\ last.other.children = <<NeOf(node), NwOf(node), SwOf(node), SeOf(node)>>)
        => last.hashes[1] # last.hashes[2]

\* C33: construction - right after macrocell(nw, ne, sw, se) both future
\* slots are null and nw(), ne(), sw(), se() return the arguments in order.
C33_ConstructedFromChildren ==
    last.op = "getters" =>
        /\ ~ToBool(last.future[1]) /\ ~ToBool(last.future[2])
        /\ last.children = last.args

\* the getters of a macrocell whose northern children differ from each
\* other and from a southern child, none of them null
C33_Witness ==
    /\ last.op = "getters"
    /\ last.args[1] # last.args[2]
    /\ ToBool(last.args[1]) /\ ToBool(last.args[2]) /\ ToBool(last.args[3])
    /\ ~ToBool(last.args[4])

\* C34: the memo is written once - between two resets the next slot of a
\* macrocell goes from null to non-null at most once and keeps its pointer,
\* and a next(m) on a filled slot returns that pointer without computing.
C34_MemoWrittenOnce ==
    [][(ToBool(NextOf(node)) /\ last'.op # "reset")
           => /\ NextOf(node') = NextOf(node)
              /\ last'.op = "next" => (last'.result = NextOf(node) /\ ~last'.computed)]_vars

\* a second next(m) that was offered another pointer than the stored one
C34_Witness ==
    /\ last.op = "next" /\ ~last.computed
    /\ last.result = NextOf(node)
    /\ \E computed \in FuturePointers : computed # NextOf(node)
    /\ ToBool(StepOf(node))

(***************************************************************************)
(* Properties of the stitches.                                             *)
(***************************************************************************)
\* the coordinates of one half of the columns or rows
Low == 0..(Half - 1)

\* C28: center - center(nw, ne, sw, se) has the SE 4x4 of nw as its
\* top-left 4x4, the SW 4x4 of ne as its top-right, the NE 4x4 of sw as its
\* bottom-left and the NW 4x4 of se as its bottom-right; center, horizontal
\* and vertical of filled blocks are the filled block.
C28_CenterStitches ==
    /\ last.op = "center" =>
          \A x \in Low, y \in Low :
              /\ Alive(cells, x, y) = Alive(last.args[1], x + Half, y + Half)
              /\ Alive(cells, x + Half, y) = Alive(last.args[2], x, y + Half)
              /\ Alive(cells, x, y + Half) = Alive(last.args[3], x + Half, y)
              /\ Alive(cells, x + Half, y + Half) = Alive(last.args[4], x, y)
    /\ (last.op \in {"center", "horizontal", "vertical"}
           /\ \A n \in 1..Len(last.args) : last.args[n] = filled) => cells = filled

\* the center of four different blocks, none of them empty, that takes live
\* cells from more than one of them
C28_Witness ==
    /\ last.op = "center"
    /\ Cardinality({last.args[n] : n \in 1..4} \ {empty_square}) = 4
    /\ And(cells, And(WestHalf, NorthHalf)) # {}
    /\ And(cells, And(EastHalf, SouthHalf)) # {}
    /\ cells # filled
(***************************************************************************)
(* Properties of the pointer.                                              *)
(***************************************************************************)
\* 2^32 - 1 as a std::size_t
MaxOffset == Widen(null_value)

\* C29: nullness - a pointer converts to false exactly when its stored
\* 32-bit value is 2^32 - 1; a pointer made of nullptr is null, and a
\* pointer made of any index other than 2^32 - 1, 0 among them, is not.
C29_NullOnlyForMax ==
    last.op = "bool" =>
        /\ ~last.result <=> pointer = null_value
        /\ last.from = Nullptr => ~last.result
        /\ (last.from # Nullptr /\ last.from # MaxOffset) => last.result

\* C30: the value is retained - pointer(i).index() is i for every
\* std::size_t i, and two pointers are equal exactly when they were made
\* of equal indexes.
C30_RetainsIndex ==
    /\ (last.op = "index" /\ last.from # Nullptr) => last.result = last.from
    /\ (last.op = "equals" /\ last.from # Nullptr) =>
           (last.result <=> last.from = last.other)
====
